---- MODULE Spec2Model ----
(***************************************************************************)
(* mytool: a typer command-line application with a group callback          *)
(* (common_options) and three subcommands (hello, sum, check).             *)
(*                                                                         *)
(* One behaviour of the model is one process run.  Text is modelled as a   *)
(* sequence of pieces (single characters where the code transforms         *)
(* characters, longer literals elsewhere); stdout and stderr are sequences *)
(* of lines.  Writes to stdout and stderr are taken to succeed.            *)
(***************************************************************************)
EXTENDS Integers, Sequences, FiniteSets, TLC

VARIABLES
    argv,          \* the command line, after splitting into options/arguments
    pc,            \* position of the process
    ctx_obj,       \* typer.Context.obj shared by the callback and the command
    params,        \* the subcommand's converted parameters
    message,       \* hello: local `message`
    result,        \* sum_cmd: local `result`
    error,         \* the exception being raised / handled
    handler_code,  \* _handle_error: parameter `exit_code`
    verbose,       \* _handle_error: local `verbose`
    stdout,        \* lines written to standard output
    stderr,        \* lines written to standard error
    exit_code,     \* the process exit status, NoExit while running
    exits          \* how many times the process terminated

vars == <<argv, pc, ctx_obj, params, message, result, error, handler_code,
          verbose, stdout, stderr, exit_code, exits>>

-----------------------------------------------------------------------------
(* Bounds of the model *)

MaxNameLen == 2
MaxNums == 3

(* Pieces a NAME argument is built from: a lower-case letter, an upper-case
   letter, a character json.dumps escapes, and a letter whose upper case is
   two characters long. *)
NameChars == {"a", "B", "\"", "sz"}

(* NUMBERS tokens: integer literals and a token int() rejects. *)
NumTokens == {"-2", "0", "7", "x"}

(* --mode values: the two the code knows and three it does not. *)
Modes == {"ok", "fail", "bogus", "OK", ""}

(* exit_code before the process has terminated *)
NoExit == 0 - 1

SeqsUpTo(S, n) == UNION {[1..k -> S] : k \in 0..n}

-----------------------------------------------------------------------------
(* Python exception classes *)

(* kind is cls or a subclass of cls *)
IsSubclass(kind, cls) ==
    CASE cls = "BaseException" -> kind \in {"BaseException", "Exception", "SystemExit",
                                            "ValueError", "RuntimeError"}
      [] cls = "Exception"     -> kind \in {"Exception", "ValueError", "RuntimeError"}
      [] OTHER                 -> kind = cls

NoError == [kind |-> "None", msg |-> <<>>]

-----------------------------------------------------------------------------
(* core.py.  Non-ASCII literals of the source are written in ASCII: the
   piece "sz" is the letter ß (U+00DF), whose upper case is "SS". *)

(* "少なくとも1つ", the start of sum_logic's message *)
AtLeastOne == "sukunakutomo hitotsu"

(* "意図的な失敗", the start of check_logic's RuntimeError message *)
IntentionalFailure == "itoteki na shippai"


UpperChar(c) ==
    CASE c = "e" -> <<"E">>
      [] c = "l" -> <<"L">>
      [] c = "o" -> <<"O">>
      [] c = "w" -> <<"W">>
      [] c = "r" -> <<"R">>
      [] c = "d" -> <<"D">>
      [] c = "a" -> <<"A">>
      [] c = "sz" -> <<"S", "S">>
      [] OTHER   -> <<c>>

RECURSIVE str_upper(_)
str_upper(s) ==
    IF s = <<>> THEN <<>> ELSE UpperChar(Head(s)) \o str_upper(Tail(s))

(* A variant that upper-cases the name only *)
hello_logic_UpperName(name, upper) ==
    <<"H", "e", "l", "l", "o", ",", " ">>
    \o (IF upper THEN str_upper(name) ELSE name) \o <<"!">>

hello_logic(name, upper) ==
    LET msg == <<"H", "e", "l", "l", "o", ",", " ">> \o name \o <<"!">>
    IN  IF upper THEN str_upper(msg) ELSE msg

RECURSIVE builtin_sum(_)
builtin_sum(numbers) ==
    IF numbers = <<>> THEN 0 ELSE Head(numbers) + builtin_sum(Tail(numbers))

(* A variant that leaves the first number out of the sum *)
sum_logic_SkipFirst(numbers) ==
    IF numbers = <<>>
    THEN [raised |-> TRUE, kind |-> "ValueError",
          msg |-> <<AtLeastOne, " no suuchi ga hitsuyou desu">>, value |-> 0]
    ELSE [raised |-> FALSE, kind |-> "None", msg |-> <<>>,
          value |-> builtin_sum(Tail(numbers))]

(* [raised, kind, msg, value] *)
sum_logic(numbers) ==
    IF numbers = <<>>
    THEN [raised |-> TRUE, kind |-> "ValueError",
          msg |-> <<AtLeastOne, " no suuchi ga hitsuyou desu">>, value |-> 0]
    ELSE [raised |-> FALSE, kind |-> "None", msg |-> <<>>,
          value |-> builtin_sum(numbers)]

(* A variant whose invalid-mode message does not name the mode *)
check_logic_NoMode(mode) ==
    IF mode = "ok"
    THEN [raised |-> FALSE, kind |-> "None", msg |-> <<>>]
    ELSE IF mode = "fail"
    THEN [raised |-> TRUE, kind |-> "RuntimeError",
          msg |-> <<IntentionalFailure, ": check mode ga 'fail' ni settei sarete imasu">>]
    ELSE [raised |-> TRUE, kind |-> "ValueError",
          msg |-> <<"fusei na mode", ". 'ok' mata wa 'fail' wo shitei shite kudasai">>]

check_logic(mode) ==
    IF mode = "ok"
    THEN [raised |-> FALSE, kind |-> "None", msg |-> <<>>]
    ELSE IF mode = "fail"
    THEN [raised |-> TRUE, kind |-> "RuntimeError",
          msg |-> <<IntentionalFailure, ": check mode ga 'fail' ni settei sarete imasu">>]
    ELSE [raised |-> TRUE, kind |-> "ValueError",
          msg |-> <<"fusei na mode: ", mode, ". 'ok' mata wa 'fail' wo shitei shite kudasai">>]

-----------------------------------------------------------------------------
(* Text conversions used by cli.py *)

DigitChar(d) == <<"0", "1", "2", "3", "4", "5", "6", "7", "8", "9">>[d + 1]

RECURSIVE NatToStr(_)
NatToStr(n) ==
    IF n < 10 THEN <<DigitChar(n)>> ELSE NatToStr(n \div 10) \o <<DigitChar(n % 10)>>

(* str(n) / json.dumps(n) of an int *)
IntToStr(n) == IF n < 0 THEN <<"-">> \o NatToStr(0 - n) ELSE NatToStr(n)

(* json.dumps of the characters of a string, ensure_ascii=False *)
RECURSIVE JsonEscape(_)
JsonEscape(s) ==
    IF s = <<>> THEN <<>>
    ELSE (IF Head(s) \in {"\"", "\\"} THEN <<"\\", Head(s)>> ELSE <<Head(s)>>)
         \o JsonEscape(Tail(s))

(* json.dumps({"message": message}, ensure_ascii=False) *)
HelloJson(msg) == <<"{", "\"message\"", ": ", "\"">> \o JsonEscape(msg) \o <<"\"", "}">>

(* json.dumps({"sum": result, "count": len(numbers)}, ensure_ascii=False) *)
SumJson(res, count) ==
    <<"{", "\"sum\"", ": ">> \o IntToStr(res) \o <<", ", "\"count\"", ": ">>
    \o IntToStr(count) \o <<"}">>

(* f"合計: {result}" *)
SumPlain(res) == <<"goukei: ">> \o IntToStr(res)

(* "✓ チェック成功" *)
CheckSuccessLine == <<"[check mark] check seikou">>

(* "エラー: " *)
ErrorPrefix == "eraa: "

(* A variant that prints the bare message *)
ErrorLine_NoPrefix(msg) == msg

(* f"エラー: {error}" *)
ErrorLine(msg) == <<ErrorPrefix>> \o msg

(* print("\n--- スタックトレース ---") then traceback.print_exc() *)
TraceMarker == <<"--- stack trace ---">>
TraceLines(err) ==
    << <<>>, TraceMarker, <<"Traceback (most recent call last):">>,
       <<err.kind, ": ">> \o err.msg >>

-----------------------------------------------------------------------------
(* The command line and its parsing by the declared parameters *)

(* int() of a NUMBERS token *)
TokIsInt(tok) == tok \in {"-2", "0", "7"}
IntOf(tok) ==
    CASE tok = "-2" -> 0 - 2
      [] tok = "0"  -> 0
      [] tok = "7"  -> 7
      [] OTHER      -> 0

DefaultName == <<"w", "o", "r", "l", "d">>

BaseArgv(cmd) ==
    [cmd |-> cmd, verbose |-> FALSE, extraOption |-> FALSE,
     nameGiven |-> FALSE, name |-> <<>>, upper |-> FALSE, json |-> FALSE,
     numbers |-> <<>>, modeGiven |-> FALSE, mode |-> ""]

(* tool [--verbose] hello [NAME] [--upper] [--json] *)
HelloArgv ==
    {[BaseArgv("hello") EXCEPT !.verbose = v, !.extraOption = x,
                               !.nameGiven = g, !.name = n, !.upper = u, !.json = j] :
        v \in BOOLEAN, x \in BOOLEAN, g \in {TRUE}, n \in SeqsUpTo(NameChars, MaxNameLen),
        u \in BOOLEAN, j \in BOOLEAN}
    \cup
    {[BaseArgv("hello") EXCEPT !.verbose = v, !.extraOption = x, !.upper = u, !.json = j] :
        v \in BOOLEAN, x \in BOOLEAN, u \in BOOLEAN, j \in BOOLEAN}

(* tool [--verbose] sum [NUMBERS...] [--json] *)
SumArgv ==
    {[BaseArgv("sum") EXCEPT !.verbose = v, !.extraOption = x, !.numbers = ns, !.json = j] :
        v \in BOOLEAN, x \in BOOLEAN, ns \in SeqsUpTo(NumTokens, MaxNums), j \in BOOLEAN}

(* tool [--verbose] check [--mode MODE] *)
CheckArgv ==
    {[BaseArgv("check") EXCEPT !.verbose = v, !.extraOption = x, !.modeGiven = TRUE, !.mode = m] :
        v \in BOOLEAN, x \in BOOLEAN, m \in Modes}
    \cup
    {[BaseArgv("check") EXCEPT !.verbose = v, !.extraOption = x] :
        v \in BOOLEAN, x \in BOOLEAN}

Invocations == HelloArgv \cup SumArgv \cup CheckArgv

(* Why the subcommand's parser rejects the command line, "none" if it accepts.
   extraOption: an option the subcommand does not declare, such as --verbose
   written after the subcommand name. *)
UsageErrorOf(a) ==
    IF a.extraOption THEN "No such option"
    ELSE IF a.cmd = "sum" /\ \E i \in DOMAIN a.numbers : ~TokIsInt(a.numbers[i])
    THEN "Invalid value for NUMBERS"
    ELSE IF a.cmd = "sum" /\ a.numbers = <<>>
    THEN "Missing argument NUMBERS"
    ELSE IF a.cmd = "check" /\ ~a.modeGiven
    THEN "Missing option --mode"
    ELSE "none"

NoParams == [name |-> <<>>, upper |-> FALSE, json_output |-> FALSE,
             numbers |-> <<>>, mode |-> ""]

(* The values the subcommand function is called with *)
ConvertParams(a) ==
    [name        |-> IF a.nameGiven THEN a.name ELSE DefaultName,
     upper       |-> a.upper,
     json_output |-> a.json,
     numbers     |-> [i \in DOMAIN a.numbers |-> IntOf(a.numbers[i])],
     mode        |-> a.mode]

(* click's report of a usage error on stderr *)
UsageLines(a) == << <<"Usage: mytool ", a.cmd>>, <<"Error: ", UsageErrorOf(a)>> >>

-----------------------------------------------------------------------------
(* The except clauses of each subcommand's try statement, in source order *)

DefaultExitCode == 1

(* A variant in which every subcommand has only the catch-all clause *)
ExceptClauses_ExceptionOnly(cmd) ==
    << [cls |-> "Exception", exit_code |-> DefaultExitCode] >>

(* A variant whose catch-all clause is `except BaseException` *)
ExceptClauses_BaseException(cmd) ==
    CASE cmd = "hello" -> << [cls |-> "BaseException", exit_code |-> DefaultExitCode] >>
      [] cmd = "sum"   -> << [cls |-> "ValueError", exit_code |-> 2],
                             [cls |-> "BaseException", exit_code |-> DefaultExitCode] >>
      [] cmd = "check" -> << [cls |-> "RuntimeError", exit_code |-> 1],
                             [cls |-> "ValueError", exit_code |-> 2],
                             [cls |-> "BaseException", exit_code |-> DefaultExitCode] >>

ExceptClauses(cmd) ==
    CASE cmd = "hello" -> << [cls |-> "Exception", exit_code |-> DefaultExitCode] >>
      [] cmd = "sum"   -> << [cls |-> "ValueError", exit_code |-> 2],
                             [cls |-> "Exception", exit_code |-> DefaultExitCode] >>
      [] cmd = "check" -> << [cls |-> "RuntimeError", exit_code |-> 1],
                             [cls |-> "ValueError", exit_code |-> 2],
                             [cls |-> "Exception", exit_code |-> DefaultExitCode] >>

(* Index of the first clause that catches an exception of this kind, 0 if none *)
MatchClause(cmd, kind) ==
    LET cl == ExceptClauses(cmd)
        hits == {i \in DOMAIN cl : IsSubclass(kind, cl[i].cls)}
    IN  IF hits = {} THEN 0 ELSE CHOOSE i \in hits : \A j \in hits : i <= j

(* A variant that tests for the key instead of reading its value *)
ReadVerbose_HasKey(obj) == ~obj.isNone /\ obj.hasVerbose

(* The verbose value _handle_error takes from ctx.obj *)
ReadVerbose(obj) ==
    IF ~obj.isNone /\ obj.hasVerbose THEN obj.verbose ELSE FALSE

-----------------------------------------------------------------------------
(* main(): the whole run app() makes for a command line, as one function of
   the command line: [exit_code, stdout, stderr]. *)

main(a) ==
    IF UsageErrorOf(a) # "none"
    THEN [exit_code |-> 2, stdout |-> <<>>, stderr |-> UsageLines(a)]
    ELSE
      LET p == ConvertParams(a)
          obj == [isNone |-> FALSE, hasVerbose |-> TRUE, verbose |-> a.verbose]
          msg == hello_logic(p.name, p.upper)
          s == sum_logic(p.numbers)
          c == check_logic(p.mode)
          r == CASE a.cmd = "hello" ->
                      [raised |-> FALSE, kind |-> "None", msg |-> <<>>,
                       line |-> IF p.json_output THEN HelloJson(msg) ELSE msg]
                 [] a.cmd = "sum" ->
                      [raised |-> s.raised, kind |-> s.kind, msg |-> s.msg,
                       line |-> IF p.json_output THEN SumJson(s.value, Len(p.numbers))
                                ELSE SumPlain(s.value)]
                 [] a.cmd = "check" ->
                      [raised |-> c.raised, kind |-> c.kind, msg |-> c.msg,
                       line |-> CheckSuccessLine]
          kind == IF r.raised THEN r.kind ELSE "SystemExit"
          i == MatchClause(a.cmd, kind)
          err == [kind |-> kind, msg |-> IF r.raised THEN r.msg ELSE <<"0">>]
      IN  [exit_code |-> IF i = 0 THEN (IF r.raised THEN 1 ELSE 0)
                         ELSE ExceptClauses(a.cmd)[i].exit_code,
           stdout    |-> IF r.raised THEN <<>> ELSE <<r.line>>,
           stderr    |-> IF i = 0 THEN <<>>
                         ELSE <<ErrorLine(err.msg)>>
                              \o (IF ReadVerbose(obj) THEN TraceLines(err) ELSE <<>>)]

-----------------------------------------------------------------------------
(* Initial state: the process has been started with some command line *)

Init ==
    /\ argv \in Invocations
    /\ pc = "start"
    /\ ctx_obj = [isNone |-> TRUE, hasVerbose |-> FALSE, verbose |-> FALSE]
    /\ params = NoParams
    /\ message = <<>>
    /\ result = 0
    /\ error = NoError
    /\ handler_code = DefaultExitCode
    /\ verbose = FALSE
    /\ stdout = <<>>
    /\ stderr = <<>>
    /\ exit_code = NoExit
    /\ exits = 0

(* The process terminates with status code *)
Terminate(code) ==
    /\ exit_code' = code
    /\ exits' = exits + 1
    /\ pc' = "done"

(* An exception of kind `kind` is raised inside the try block of the running
   subcommand: the first matching except clause calls _handle_error with its
   exit code; SystemExit matches none and ends the process with status `code`. *)
RaiseInTry(kind, msg, code) ==
    LET i == MatchClause(argv.cmd, kind)
    IN  IF i = 0
        THEN /\ Terminate(code)
             /\ UNCHANGED <<error, handler_code>>
        ELSE /\ error' = [kind |-> kind, msg |-> msg]
             /\ handler_code' = ExceptClauses(argv.cmd)[i].exit_code
             /\ pc' = "handle_error"
             /\ UNCHANGED <<exit_code, exits>>

(* A variant of the callback that creates ctx.obj but does not store the flag *)
common_options_Unset ==
    /\ pc = "start"
    /\ ctx_obj' = [isNone |-> FALSE, hasVerbose |-> FALSE, verbose |-> FALSE]
    /\ pc' = "parse"
    /\ UNCHANGED <<argv, params, message, result, error, handler_code, verbose,
                   stdout, stderr, exit_code, exits>>

(* @app.callback(): runs before the subcommand's arguments are parsed *)
common_options ==
    /\ pc = "start"
    /\ ctx_obj' = [isNone |-> FALSE, hasVerbose |-> TRUE, verbose |-> argv.verbose]
    /\ pc' = "parse"
    /\ UNCHANGED <<argv, params, message, result, error, handler_code, verbose,
                   stdout, stderr, exit_code, exits>>

(* The subcommand's parser rejects the command line: usage error, exit 2 *)
usage_error ==
    /\ pc = "parse"
    /\ UsageErrorOf(argv) # "none"
    /\ stderr' = stderr \o UsageLines(argv)
    /\ Terminate(2)
    /\ UNCHANGED <<argv, ctx_obj, params, message, result, error, handler_code,
                   verbose, stdout>>

(* The subcommand's parser accepts: the subcommand function is entered *)
invoke_command ==
    /\ pc = "parse"
    /\ UsageErrorOf(argv) = "none"
    /\ params' = ConvertParams(argv)
    /\ pc' = "try"
    /\ UNCHANGED <<argv, ctx_obj, message, result, error, handler_code, verbose,
                   stdout, stderr, exit_code, exits>>

(* hello: message = hello_logic(name, upper) *)
hello_call ==
    /\ pc = "try" /\ argv.cmd = "hello"
    /\ message' = hello_logic(params.name, params.upper)
    /\ pc' = "print"
    /\ UNCHANGED <<argv, ctx_obj, params, result, error, handler_code, verbose,
                   stdout, stderr, exit_code, exits>>

(* hello: print the message, plain or as JSON *)
hello_print ==
    /\ pc = "print" /\ argv.cmd = "hello"
    /\ stdout' = Append(stdout, IF params.json_output THEN HelloJson(message) ELSE message)
    /\ pc' = "sys_exit"
    /\ UNCHANGED <<argv, ctx_obj, params, message, result, error, handler_code,
                   verbose, stderr, exit_code, exits>>

(* sum_cmd: result = sum_logic(numbers) *)
sum_call ==
    /\ pc = "try" /\ argv.cmd = "sum"
    /\ LET r == sum_logic(params.numbers)
       IN  IF r.raised
           THEN /\ RaiseInTry(r.kind, r.msg, 1)
                /\ UNCHANGED result
           ELSE /\ result' = r.value
                /\ pc' = "print"
                /\ UNCHANGED <<error, handler_code, exit_code, exits>>
    /\ UNCHANGED <<argv, ctx_obj, params, message, verbose, stdout, stderr>>

(* sum_cmd: print the sum, plain or as JSON *)
sum_print ==
    /\ pc = "print" /\ argv.cmd = "sum"
    /\ stdout' = Append(stdout, IF params.json_output
                                THEN SumJson(result, Len(params.numbers))
                                ELSE SumPlain(result))
    /\ pc' = "sys_exit"
    /\ UNCHANGED <<argv, ctx_obj, params, message, result, error, handler_code,
                   verbose, stderr, exit_code, exits>>

(* check: check_logic(mode) *)
check_call ==
    /\ pc = "try" /\ argv.cmd = "check"
    /\ LET r == check_logic(params.mode)
       IN  IF r.raised
           THEN RaiseInTry(r.kind, r.msg, 1)
           ELSE /\ pc' = "print"
                /\ UNCHANGED <<error, handler_code, exit_code, exits>>
    /\ UNCHANGED <<argv, ctx_obj, params, message, result, verbose, stdout, stderr>>

(* check: print the success marker *)
check_print ==
    /\ pc = "print" /\ argv.cmd = "check"
    /\ stdout' = Append(stdout, CheckSuccessLine)
    /\ pc' = "sys_exit"
    /\ UNCHANGED <<argv, ctx_obj, params, message, result, error, handler_code,
                   verbose, stderr, exit_code, exits>>

(* sys.exit(0) at the end of the try block: raises SystemExit(0) *)
sys_exit_0 ==
    /\ pc = "sys_exit"
    /\ RaiseInTry("SystemExit", <<"0">>, 0)
    /\ UNCHANGED <<argv, ctx_obj, params, message, result, verbose, stdout, stderr>>

(* _handle_error: read verbose from ctx.obj, print the error line *)
handle_error_print ==
    /\ pc = "handle_error"
    /\ verbose' = ReadVerbose(ctx_obj)
    /\ stderr' = Append(stderr, ErrorLine(error.msg))
    /\ pc' = "handle_error_trace"
    /\ UNCHANGED <<argv, ctx_obj, params, message, result, error, handler_code,
                   stdout, exit_code, exits>>

(* A variant that prints the trace without file=sys.stderr *)
handle_error_trace_Stdout ==
    /\ pc = "handle_error_trace"
    /\ stdout' = IF verbose THEN stdout \o TraceLines(error) ELSE stdout
    /\ pc' = "handle_error_exit"
    /\ UNCHANGED <<argv, ctx_obj, params, message, result, error, handler_code,
                   verbose, stderr, exit_code, exits>>

(* _handle_error: if verbose, print the marker and the traceback *)
handle_error_trace ==
    /\ pc = "handle_error_trace"
    /\ stderr' = IF verbose THEN stderr \o TraceLines(error) ELSE stderr
    /\ pc' = "handle_error_exit"
    /\ UNCHANGED <<argv, ctx_obj, params, message, result, error, handler_code,
                   verbose, stdout, exit_code, exits>>

(* _handle_error: sys.exit(exit_code), raised outside any try block *)
handle_error_exit ==
    /\ pc = "handle_error_exit"
    /\ Terminate(handler_code)
    /\ UNCHANGED <<argv, ctx_obj, params, message, result, error, handler_code,
                   verbose, stdout, stderr>>

Next ==
    \/ common_options
    \/ usage_error
    \/ invoke_command
    \/ hello_call
    \/ hello_print
    \/ sum_call
    \/ sum_print
    \/ check_call
    \/ check_print
    \/ sys_exit_0
    \/ handle_error_print
    \/ handle_error_trace
    \/ handle_error_exit

Spec == Init /\ [][Next]_vars

-----------------------------------------------------------------------------
(* Properties *)

HasPiece(line, p) == \E j \in DOMAIN line : line[j] = p

StderrContains(p) == \E i \in DOMAIN stderr : HasPiece(stderr[i], p)

IsErrorLine(line) == line # <<>> /\ Head(line) = ErrorPrefix

HasErrorLine == \E i \in DOMAIN stderr : IsErrorLine(stderr[i])

HasTrace == \E i \in DOMAIN stderr : stderr[i] = TraceMarker

Done == pc = "done"

(* The run of the step model ends as main(argv) says. *)
RunIsMain ==
    Done => /\ exit_code = main(argv).exit_code
            /\ stdout = main(argv).stdout
            /\ stderr = main(argv).stderr

(* How the run failed, if it did *)
Rejected == Done /\ error.kind = "None" /\ stdout = <<>>
Succeeded == Done /\ error.kind = "None" /\ stdout # <<>>
UserInputError == Done /\ (Rejected \/ error.kind = "ValueError")
OtherError == Done /\ error.kind \notin {"None", "ValueError"}

(* C1: every invocation of hello, sum or check ends the process exactly once
   with an exit code in {0, 1, 2}: 0 exactly when the operation succeeded,
   2 exactly when it failed with a user-input error (a ValueError of the
   operation, or arguments the parser rejects), 1 when it failed with an
   intentional-failure error or any other error; a process that has not
   ended can always take a step. *)
C1_ExitCodes ==
    /\ exits \in {0, 1}
    /\ (exits = 1) <=> Done
    /\ (exit_code # NoExit) <=> Done
    /\ Done \/ ENABLED Next
    /\ Done => /\ exit_code \in {0, 1, 2}
               /\ (exit_code = 0) <=> Succeeded
               /\ (exit_code = 2) <=> UserInputError
               /\ OtherError => exit_code = 1
    /\ \A cmd \in {"hello", "sum", "check"} :
          MatchClause(cmd, "Exception") # 0
          /\ ExceptClauses(cmd)[MatchClause(cmd, "Exception")].exit_code = 1

C1_Witness ==
    /\ Done /\ exits = 1 /\ exit_code = 2
    /\ error.kind = "ValueError"

(* C2: check --mode m: "ok" prints the success marker on stdout and exits 0;
   "fail" exits 1 with the intentional-failure message on stderr; any other
   m exits 2 with a stderr message that contains m. *)
C2_CheckModes ==
    (Done /\ argv.cmd = "check" /\ argv.modeGiven /\ ~argv.extraOption) =>
        /\ argv.mode = "ok" =>
              exit_code = 0 /\ stdout = <<CheckSuccessLine>> /\ stderr = <<>>
        /\ argv.mode = "fail" =>
              /\ exit_code = 1 /\ stdout = <<>>
              /\ \E i \in DOMAIN stderr :
                    IsErrorLine(stderr[i]) /\ HasPiece(stderr[i], IntentionalFailure)
        /\ argv.mode \notin {"ok", "fail"} =>
              /\ exit_code = 2 /\ stdout = <<>>
              /\ \E i \in DOMAIN stderr :
                    IsErrorLine(stderr[i]) /\ HasPiece(stderr[i], argv.mode)

C2_Witness ==
    /\ Done /\ argv.cmd = "check" /\ argv.modeGiven /\ ~argv.extraOption
    /\ argv.mode = "bogus" /\ exit_code = 2 /\ StderrContains("bogus")

(* C3: running sum with no numbers exits with code 2 and writes to stderr an
   error message containing sum_logic's "at least one number" text. *)
C3_SumNoNumbers ==
    (Done /\ argv.cmd = "sum" /\ argv.numbers = <<>> /\ ~argv.extraOption) =>
        exit_code = 2 /\ StderrContains(AtLeastOne)

C3_Reached ==
    /\ Done /\ argv.cmd = "sum" /\ argv.numbers = <<>> /\ ~argv.extraOption
    /\ exit_code = 2 /\ ~StderrContains(AtLeastOne)

(* C4, as stated: every invocation that ends with a non-zero exit code,
   missing or malformed arguments included, has written a line beginning
   with the error prefix to stderr. *)
C4_EveryFailurePrefixed ==
    (Done /\ exit_code # 0) => HasErrorLine

(* C4, amended: every failure of an operation (an exception handled by
   _handle_error) has written "<prefix><message>" as the first line of stderr
   before the process ends with a non-zero code; an invocation the argument
   parser rejects ends with exit code 2 after the parser's usage error, and
   no line of stderr begins with the prefix. *)
C4_OperationFailurePrefixed ==
    /\ pc \in {"handle_error_trace", "handle_error_exit"} =>
          stderr # <<>> /\ IsErrorLine(stderr[1]) /\ exit_code = NoExit
    /\ (Done /\ exit_code # 0) =>
          IF UsageErrorOf(argv) = "none"
          THEN /\ stderr # <<>>
               /\ IsErrorLine(stderr[1])
               /\ Tail(stderr[1]) = error.msg /\ error.msg # <<>>
          ELSE /\ exit_code = 2
               /\ stderr # <<>>
               /\ ~HasErrorLine

C4_Witness ==
    /\ Done /\ exit_code = 1 /\ argv.cmd = "check" /\ argv.mode = "fail"
    /\ HasErrorLine

-----------------------------------------------------------------------------

DigitValue(c) == CHOOSE d \in 0..9 : <<"0", "1", "2", "3", "4", "5", "6", "7", "8", "9">>[d + 1] = c

IsDigit(c) == c \in {"0", "1", "2", "3", "4", "5", "6", "7", "8", "9"}

RECURSIVE DigitsToNat(_)
DigitsToNat(ds) ==
    IF ds = <<>> THEN 0
    ELSE 10 * DigitsToNat(SubSeq(ds, 1, Len(ds) - 1)) + DigitValue(ds[Len(ds)])

(* ds is the decimal numeral of n: an optional sign, digits, no leading zero *)
IsNumeralOf(ds, n) ==
    LET body == IF ds # <<>> /\ Head(ds) = "-" THEN Tail(ds) ELSE ds
    IN  /\ body # <<>>
        /\ \A i \in DOMAIN body : IsDigit(body[i])
        /\ Len(body) > 1 => body[1] # "0"
        /\ (ds[1] = "-") => DigitsToNat(body) # 0
        /\ n = IF ds[1] = "-" THEN 0 - DigitsToNat(body) ELSE DigitsToNat(body)

(* The arithmetic sum of the first k integers written on the command line *)
RECURSIVE ArithSum(_, _)
ArithSum(toks, k) ==
    IF k = 0 THEN 0 ELSE ArithSum(toks, k - 1) + IntOf(toks[k])

SumAccepted ==
    /\ argv.cmd = "sum" /\ ~argv.extraOption
    /\ argv.numbers # <<>>
    /\ \A i \in DOMAIN argv.numbers : argv.numbers[i] \in {"-2", "0", "7"}

(* C5: for every non-empty sequence s of integers, sum exits 0 and reports the
   arithmetic sum N of s: the plain line is the label followed by the numeral
   of N, the JSON line is {"sum": N, "count": C} with C the length of s. *)
C5_SumReportsSum ==
    (Done /\ SumAccepted) =>
        LET N == ArithSum(argv.numbers, Len(argv.numbers))
            C == Len(argv.numbers)
            line == stdout[1]
        IN  /\ exit_code = 0
            /\ stderr = <<>>
            /\ Len(stdout) = 1
            /\ ~argv.json =>
                  /\ Head(line) = "goukei: "
                  /\ IsNumeralOf(Tail(line), N)
            /\ argv.json =>
                  \E k \in 4..(Len(line) - 4) :
                      /\ SubSeq(line, 1, 3) = <<"{", "\"sum\"", ": ">>
                      /\ IsNumeralOf(SubSeq(line, 4, k), N)
                      /\ SubSeq(line, k + 1, k + 3) = <<", ", "\"count\"", ": ">>
                      /\ IsNumeralOf(SubSeq(line, k + 4, Len(line) - 1), C)
                      /\ line[Len(line)] = "}"

C5_Witness ==
    /\ Done /\ SumAccepted /\ argv.json /\ exit_code = 0
    /\ argv.numbers = <<"7", "-2", "7">>
    /\ stdout = << <<"{", "\"sum\"", ": ", "1", "2", ", ", "\"count\"", ": ", "3", "}">> >>

-----------------------------------------------------------------------------

(* str.upper() of one piece of a name *)
UpperOfPiece(c) ==
    CASE c = "a"  -> <<"A">>
      [] c = "sz" -> <<"S", "S">>
      [] c = "w"  -> <<"W">>
      [] c = "o"  -> <<"O">>
      [] c = "r"  -> <<"R">>
      [] c = "l"  -> <<"L">>
      [] c = "d"  -> <<"D">>
      [] OTHER    -> <<c>>

RECURSIVE UpperOfName(_)
UpperOfName(n) ==
    IF n = <<>> THEN <<>> ELSE UpperOfPiece(Head(n)) \o UpperOfName(Tail(n))

(* "Hello, {name}!", upper-cased as a whole when upper is set *)
Greeting(n, u) ==
    IF u THEN <<"H", "E", "L", "L", "O", ",", " ">> \o UpperOfName(n) \o <<"!">>
    ELSE <<"H", "e", "l", "l", "o", ",", " ">> \o n \o <<"!">>

(* The characters a JSON string body stands for *)
RECURSIVE JsonUnescape(_)
JsonUnescape(s) ==
    IF s = <<>> THEN <<>>
    ELSE IF Head(s) = "\\" /\ Len(s) >= 2
    THEN <<s[2]>> \o JsonUnescape(Tail(Tail(s)))
    ELSE <<Head(s)>> \o JsonUnescape(Tail(s))

(* No unescaped quote inside a JSON string body *)
RECURSIVE WellEscaped(_)
WellEscaped(s) ==
    IF s = <<>> THEN TRUE
    ELSE IF Head(s) = "\\" THEN Len(s) >= 2 /\ WellEscaped(Tail(Tail(s)))
    ELSE Head(s) # "\"" /\ WellEscaped(Tail(s))

(* C6: hello has no failure path: for every name (default "world") and every
   combination of --upper, --json and --verbose it exits 0 with the greeting
   on stdout (as the line itself, or as the "message" of the JSON object) and
   nothing on stderr, and _handle_error is never entered. *)
C6_HelloNeverFails ==
    (argv.cmd = "hello" /\ ~argv.extraOption) =>
        /\ pc \notin {"handle_error", "handle_error_trace", "handle_error_exit"}
        /\ error.kind = "None"
        /\ stderr = <<>>
        /\ Done =>
              LET want == Greeting(IF argv.nameGiven THEN argv.name
                                   ELSE <<"w", "o", "r", "l", "d">>, argv.upper)
                  line == stdout[1]
                  body == SubSeq(line, 5, Len(line) - 2)
              IN  /\ exit_code = 0
                  /\ Len(stdout) = 1
                  /\ ~argv.json => line = want
                  /\ argv.json =>
                        /\ Len(line) >= 6
                        /\ SubSeq(line, 1, 4) = <<"{", "\"message\"", ": ", "\"">>
                        /\ SubSeq(line, Len(line) - 1, Len(line)) = <<"\"", "}">>
                        /\ WellEscaped(body)
                        /\ JsonUnescape(body) = want

C6_Witness ==
    /\ Done /\ argv.cmd = "hello" /\ ~argv.extraOption /\ exit_code = 0
    /\ argv.upper /\ argv.json /\ argv.verbose /\ argv.nameGiven
    /\ argv.name = <<"sz", "\"">>
    /\ stdout = << <<"{", "\"message\"", ": ", "\"",
                     "H", "E", "L", "L", "O", ",", " ", "S", "S", "\\", "\"", "!",
                     "\"", "}">> >>

-----------------------------------------------------------------------------

(* stderr of a failed operation: the error line first, then the trace if and
   only if the verbose flag was given *)
ErrorReport ==
    /\ stderr # <<>>
    /\ stderr[1] = <<ErrorPrefix>> \o error.msg
    /\ \A i \in DOMAIN stderr : stderr[i] = TraceMarker => i > 1
    /\ HasTrace <=> argv.verbose
    /\ ~argv.verbose => Len(stderr) = 1

(* C7: on an operation failure the error line is written to stderr first, then
   a stack trace if and only if the verbose flag is set, then the process
   terminates; no stack trace is written when verbose is unset or when the
   operation succeeded. *)
C7_ErrorOrder ==
    /\ pc = "handle_error" => stderr = <<>> /\ exit_code = NoExit
    /\ pc = "handle_error_trace" =>
          stderr = << <<ErrorPrefix>> \o error.msg >> /\ exit_code = NoExit
    /\ pc = "handle_error_exit" => ErrorReport /\ exit_code = NoExit
    /\ (Done /\ error.kind # "None") => ErrorReport /\ exit_code \in {1, 2}
    /\ HasTrace => argv.verbose /\ error.kind # "None" /\ stdout = <<>>
    /\ Done => pc \notin {"handle_error", "handle_error_trace", "handle_error_exit"}

C7_Witness ==
    /\ Done /\ argv.verbose /\ exit_code = 1 /\ error.kind = "RuntimeError"
    /\ Len(stderr) > 2 /\ IsErrorLine(stderr[1]) /\ stderr[3] = TraceMarker

-----------------------------------------------------------------------------

CtxSet == [isNone |-> FALSE, hasVerbose |-> TRUE, verbose |-> argv.verbose]

(* C8: the shared context's verbose value is set by common_options before
   any of hello, sum or check starts executing, is never modified afterwards,
   and the value _handle_error reads is the one set then (false when the flag
   was not given). *)
C8_VerboseContext ==
    /\ [](pc # "start" => ctx_obj = CtxSet)
    /\ [](pc \in {"handle_error_trace", "handle_error_exit"} => verbose = argv.verbose)
    /\ [][pc # "start" => ctx_obj' = ctx_obj]_vars
    /\ [][argv' = argv]_vars

C8_Witness ==
    /\ pc = "handle_error_exit" /\ argv.verbose /\ verbose
    /\ ctx_obj.verbose

-----------------------------------------------------------------------------

(* lines is base, or base followed by a stack trace *)
DiffersByTraceOnly(lines, base) ==
    \/ lines = base
    \/ /\ Len(lines) > Len(base) + 1
       /\ SubSeq(lines, 1, Len(base)) = base
       /\ lines[Len(base) + 2] = TraceMarker

(* C9: two invocations that differ only in the verbose flag end with the same
   exit code, the same stdout and the same error line; their stderr differs
   at most by the stack trace.  The finished run is compared with main() of
   the command line with the flag flipped. *)
C9_VerboseNoInfluence ==
    Done =>
        LET other == main([argv EXCEPT !.verbose = ~argv.verbose])
        IN  /\ exit_code = other.exit_code
            /\ stdout = other.stdout
            /\ SelectSeq(stderr, IsErrorLine) = SelectSeq(other.stderr, IsErrorLine)
            /\ IF argv.verbose THEN DiffersByTraceOnly(stderr, other.stderr)
               ELSE DiffersByTraceOnly(other.stderr, stderr)

C9_Witness ==
    /\ Done /\ argv.verbose /\ HasTrace /\ exit_code = 2
    /\ main([argv EXCEPT !.verbose = FALSE]).exit_code = 2
    /\ Len(main([argv EXCEPT !.verbose = FALSE]).stderr) = 1

-----------------------------------------------------------------------------

(* C10: success output and failure output exclude each other: stdout is
   written only after the operation returned without error, the exit raised
   by sys.exit(0) is not caught by the except clauses, no run has both output
   on stdout and an error line or a non-zero exit code, and a failing run
   leaves stdout empty. *)
C10_SuccessXorFailure ==
    /\ pc = "print" => error.kind = "None" /\ stdout = <<>>
    /\ stdout # <<>> =>
          /\ pc \in {"sys_exit", "done"}
          /\ error.kind = "None"
          /\ ~HasErrorLine
          /\ exit_code \in {NoExit, 0}
    /\ error.kind # "SystemExit"
    /\ (Done /\ exit_code # 0) => stdout = <<>>
    /\ (Done /\ exit_code = 0) => stdout # <<>> /\ stderr = <<>>

C10_Witness ==
    /\ Done /\ exit_code = 0 /\ argv.cmd = "sum" /\ stdout # <<>>
    /\ stderr = <<>>

====
